---- MODULE Spec2Model ----
(***************************************************************************)
(* Batch sealing state machine of damocles-worker                          *)
(* (src/damocles-worker/src/sealing/sealing_thread/planner/batch.rs).      *)
(*                                                                         *)
(* The model holds one Job: the persisted batch record (state, batch_size, *)
(* sectors), the sealing configuration, the BatchPlanner, and the position *)
(* of the driver cycle exec -> plan -> apply.                              *)
(*                                                                         *)
(*   Spec      the driver cycle on a batch record loaded from the store;   *)
(*             the sector manager's RPC answers and the stop signal are    *)
(*             the nondeterministic inputs.                                *)
(*   FairSpec  Spec with the driver thread always scheduled.               *)
(*   SpecCrash Spec with crashes of the worker between exec and the commit *)
(*             of the record, and the restart from the committed record.   *)
(*   SpecLoad  the cycle on any record the store can hold: sector list cut  *)
(*             short, a field absent, or a resubmission flag set.          *)
(*   SpecPlan  plan and Event::apply as functions: one (state, event) pair *)
(*             drawn from the bounded sets, planned and then applied.      *)
(*                                                                         *)
(* BatchSealer actions whose body is todo!() panic when called; the        *)
(* mutation step of the cycle is Event::apply (BatchPlanner::apply, its    *)
(* trait wrapper, is an unimplemented stub).                               *)
(***************************************************************************)
EXTENDS Integers, Sequences, FiniteSets, TLC

VARIABLES
    state,        \* job.sectors.state
    batch_size,   \* job.sectors.batch_size
    sectors,      \* job.sectors.sectors
    cfg,          \* job.sealing_ctrl.config(): enable_deals, disable_cc, ignore_proof_check
    build,        \* "debug": arithmetic overflow panics; "release": it wraps
    pc,           \* position of the driver cycle
    action,       \* the BatchSealer action exec dispatched to
    evt,          \* the event exec returned (or the event drawn, in SpecPlan)
    res,          \* the result of plan
    failure,      \* level of the failure that ended the cycle, "None" while it runs
    dirty,        \* the record was mutated through inner_mut() and is not committed
    polls,        \* poll RPCs issued by the running action
    waits,        \* polling-interval or seed-delay waits completed by the running action
    cooldowns,    \* cooldown waits completed by the running action
    rpc,          \* the last RPC of the running action and the sector manager's answer
    saved,        \* the record as last committed to the store
    crash         \* after a restart: the event and RPC of the cycle the crash cut short

vars == <<state, batch_size, sectors, cfg, build, pc, action, evt, res, failure,
          dirty, polls, waits, cooldowns, rpc, saved, crash>>

----------------------------------------------------------------------------
(* Bounds *)

MaxBatch == 3     \* largest batch_size
MaxPolls == 3     \* most Pending/Packed (or wait) answers to one polling action
MaxTicket == 2    \* distinct ticket values the sector manager hands out

(* usize::MAX, the value 0usize - 1 wraps to. TLC integers are 32-bit, so  *)
(* it is held as 2^31 - 1: it only has to exceed every index of the model. *)
UsizeMax == 2147483647

----------------------------------------------------------------------------
(* State (enum State) *)

Pipeline ==
    << "Empty", "Allocated", "DealsAcquired", "PieceAdded", "TreeDBuilt",
       "TicketAssigned", "PC1Done", "PC2Done", "PCSubmitted", "PCLanded",
       "Persisted", "PersistanceSubmitted", "SeedAssigned", "C1Done", "C2Done",
       "ProofSubmitted", "Finished" >>

Indexed ==
    { "DealsAcquired", "PieceAdded", "TreeDBuilt", "PCSubmitted", "PCLanded",
      "Persisted", "PersistanceSubmitted", "SeedAssigned", "C2Done",
      "ProofSubmitted", "Finished" }

StateTags == { Pipeline[k] : k \in 1..Len(Pipeline) } \cup { "Aborted" }

\* A State value; variants without an index carry index 0.
St(tag, index) == [tag |-> tag, index |-> IF tag \in Indexed THEN index ELSE 0]

NoState == [tag |-> "-", index |-> 0]

\* Position of a phase in the declaration order of enum State.
Ord(tag) == IF tag \in StateTags \ {"Aborted"}
            THEN CHOOSE k \in 1..Len(Pipeline) : Pipeline[k] = tag
            ELSE 0

States(maxIndex) ==
    { St(t, 0) : t \in StateTags \ Indexed } \cup
    { St(t, i) : t \in Indexed, i \in 0..maxIndex }

----------------------------------------------------------------------------
(* Event (enum Event) *)

IndexedEvents ==
    { "AcquireDeals", "AddPiece", "BuildTreeD", "SubmitPC", "ReSubmitPC", "CheckPC",
      "Persist", "SubmitPersistance", "AssignSeed", "C2", "SubmitProof",
      "ReSubmitProof", "Finish" }

EventTags ==
    IndexedEvents \cup { "SetState", "Idle", "Allocate", "AssignTicket", "PC1", "PC2", "C1" }

\* An Event value: index for the indexed variants, val the payload (number of
\* allocated sectors, deals, ticket, instance, seed), st the state of SetState.
Ev(tag, index, val) == [tag |-> tag, index |-> index, val |-> val, st |-> NoState]

SetState(s) == [tag |-> "SetState", index |-> 0, val |-> 0, st |-> s]

NoEvent == [tag |-> "-", index |-> 0, val |-> 0, st |-> NoState]

\* Option<Deals>: None, Some(empty list), Some(non-empty list)
DealsNone == 0
DealsEmpty == 1
DealsSome == 2

Events(maxIndex) ==
    { Ev(t, i, 1) : t \in IndexedEvents, i \in 0..maxIndex } \cup
    { Ev("AcquireDeals", i, d) : i \in 0..maxIndex, d \in {DealsNone, DealsSome} } \cup
    { Ev("Allocate", 0, n) : n \in 1..maxIndex } \cup
    { Ev("AssignTicket", 0, t) : t \in 1..MaxTicket } \cup
    { Ev(t, 0, 1) : t \in {"PC1", "PC2"} } \cup
    { Ev("C1", 0, n) : n \in 1..maxIndex } \cup
    { Ev("Idle", 0, 0) } \cup
    { SetState(s) : s \in {St("Aborted", 0), St("Empty", 0), St("PC2Done", 0)} }

----------------------------------------------------------------------------
(* BatchPlanner *)

\* #[derive(Default)] struct BatchPlanner { batch_size: usize }: the field is
\* private and nothing in the module sets it, so it holds usize's default.
BatchPlanner == [batch_size |-> 0]

\* a - b on usize: in range, or overflow (panic in a debug build, wrap in release).
usize_sub(a, b) ==
    IF a >= b THEN [kind |-> "ok", val |-> a - b]
    ELSE IF build = "debug" THEN [kind |-> "panic", val |-> 0]
    ELSE [kind |-> "ok", val |-> UsizeMax - (b - a) + 1]

PlanOk(s) == [kind |-> "ok", state |-> s]
PlanErr == [kind |-> "err", state |-> NoState]      \* "unexpected state and event"
PlanPanic == [kind |-> "panic", state |-> NoState]
NoRes == [kind |-> "-", state |-> NoState]

\* A ReSubmitPC that steps back with no check for index 0.
resubmit_pc_unchecked(index) == PlanOk(St("PCSubmitted", index - 1))

\* The arm (PCSubmitted, ReSubmitPC { index }) of plan.
resubmit_pc(index) ==
    IF index > 0 THEN PlanOk(St("PCSubmitted", index - 1))
    ELSE PlanOk(St("PC2Done", 0))

\* The arm (ProofSubmitted, ReSubmitProof { index }) of plan.
resubmit_proof(self, index) ==
    IF index > 0 THEN PlanOk(St("ProofSubmitted", index - 1))
    ELSE LET d == usize_sub(self.batch_size, 1)
         IN  IF d.kind = "panic" THEN PlanPanic
             ELSE PlanOk(St("C2Done", d.val))

\* The (state, event) patterns of the arms of plan, the catch-all aside.
DeclaredPairs ==
    { <<"Empty", "Allocate">>,
      <<"Allocated", "AcquireDeals">>, <<"DealsAcquired", "AcquireDeals">>,
      <<"DealsAcquired", "AddPiece">>, <<"PieceAdded", "AddPiece">>,
      <<"PieceAdded", "BuildTreeD">>, <<"TreeDBuilt", "BuildTreeD">>,
      <<"TreeDBuilt", "AssignTicket">>,
      <<"TicketAssigned", "PC1">>,
      <<"PC1Done", "PC2">>,
      <<"PC2Done", "SubmitPC">>, <<"PCSubmitted", "SubmitPC">>,
      <<"PCSubmitted", "CheckPC">>, <<"PCLanded", "CheckPC">>,
      <<"PCSubmitted", "ReSubmitPC">>,
      <<"PCLanded", "Persist">>, <<"Persisted", "SubmitPersistance">>,
      <<"PersistanceSubmitted", "AssignSeed">>, <<"SeedAssigned", "AssignSeed">>,
      <<"SeedAssigned", "C1">>,
      <<"C1Done", "C2">>, <<"C2Done", "C2">>,
      <<"C2Done", "SubmitProof">>, <<"ProofSubmitted", "SubmitProof">>,
      <<"ProofSubmitted", "ReSubmitProof">>,
      <<"ProofSubmitted", "Finish">>, <<"Finished", "Finish">> }

\* BatchPlanner::plan(&self, evt, st)
plan(self, e, st) ==
    LET s == st.tag
        t == e.tag
        index == e.index
    IN  CASE s = "Empty" /\ t = "Allocate" -> PlanOk(St("Allocated", 0))
          [] s \in {"Allocated", "DealsAcquired"} /\ t = "AcquireDeals" ->
                PlanOk(St("DealsAcquired", index))
          [] s \in {"DealsAcquired", "PieceAdded"} /\ t = "AddPiece" ->
                PlanOk(St("PieceAdded", index))
          [] s \in {"PieceAdded", "TreeDBuilt"} /\ t = "BuildTreeD" ->
                PlanOk(St("TreeDBuilt", index))
          [] s = "TreeDBuilt" /\ t = "AssignTicket" -> PlanOk(St("TicketAssigned", 0))
          [] s = "TicketAssigned" /\ t = "PC1" -> PlanOk(St("PC1Done", 0))
          [] s = "PC1Done" /\ t = "PC2" -> PlanOk(St("PC2Done", 0))
          [] s \in {"PC2Done", "PCSubmitted"} /\ t = "SubmitPC" ->
                PlanOk(St("PCSubmitted", index))
          [] s \in {"PCSubmitted", "PCLanded"} /\ t = "CheckPC" ->
                PlanOk(St("PCLanded", index))
          [] s = "PCSubmitted" /\ t = "ReSubmitPC" -> resubmit_pc(index)
          [] (s = "PCLanded" /\ t = "Persist") \/ (s = "Persisted" /\ t = "SubmitPersistance") ->
                PlanOk(St("Persisted", index))
          [] s \in {"PersistanceSubmitted", "SeedAssigned"} /\ t = "AssignSeed" ->
                PlanOk(St("SeedAssigned", index))
          [] s = "SeedAssigned" /\ t = "C1" -> PlanOk(St("C1Done", 0))
          [] s \in {"C1Done", "C2Done"} /\ t = "C2" -> PlanOk(St("C2Done", index))
          [] s \in {"C2Done", "ProofSubmitted"} /\ t = "SubmitProof" ->
                PlanOk(St("ProofSubmitted", index))
          [] s = "ProofSubmitted" /\ t = "ReSubmitProof" -> resubmit_proof(self, index)
          [] s \in {"ProofSubmitted", "Finished"} /\ t = "Finish" ->
                PlanOk(St("Finished", index))
          [] OTHER -> PlanErr

----------------------------------------------------------------------------
(* Sector, Sectors and the mutation step *)

\* A sector before allocation: no base, no deals, empty phases.
EmptySector ==
    [base |-> FALSE, deals |-> DealsNone, ticket |-> 0, pc2out |-> FALSE,
     persist_instance |-> 0, seed |-> 0, c1out |-> FALSE, c2out |-> FALSE,
     pc2_re_submit |-> FALSE, c2_re_submit |-> FALSE]

Min(a, b) == IF a < b THEN a ELSE b

\* s.sectors.get_mut(index) followed by one field assignment; index is 0-based.
SetField(secs, index, f, v) ==
    IF index < Len(secs)
    THEN [secs EXCEPT ![index + 1] = [@ EXCEPT ![f] = v]]
    ELSE secs

\* Event::apply_changes(self, s)
apply_changes(e, secs) ==
    CASE e.tag = "Allocate" ->
            [j \in 1..Len(secs) |->
                IF j <= Min(e.val, Len(secs)) THEN [secs[j] EXCEPT !.base = TRUE] ELSE secs[j]]
      [] e.tag = "AcquireDeals" -> SetField(secs, e.index, "deals", e.val)
      [] e.tag = "BuildTreeD" -> secs
      [] e.tag = "AssignTicket" ->
            [j \in 1..Len(secs) |-> [secs[j] EXCEPT !.ticket = e.val]]
      [] e.tag = "Persist" -> SetField(secs, e.index, "persist_instance", e.val)
      [] e.tag = "AssignSeed" -> SetField(secs, e.index, "seed", e.val)
      [] e.tag = "C1" ->
            [j \in 1..Len(secs) |->
                IF j <= Min(e.val, Len(secs)) THEN [secs[j] EXCEPT !.c1out = TRUE] ELSE secs[j]]
      [] e.tag = "C2" -> SetField(secs, e.index, "c2out", TRUE)
      [] e.tag = "SubmitPC" -> SetField(secs, e.index, "pc2_re_submit", FALSE)
      [] e.tag = "ReSubmitPC" -> SetField(secs, e.index, "pc2_re_submit", TRUE)
      [] e.tag = "SubmitProof" -> SetField(secs, e.index, "c2_re_submit", FALSE)
      [] e.tag = "ReSubmitProof" -> SetField(secs, e.index, "c2_re_submit", TRUE)
      [] OTHER -> secs

\* An Event::apply with no check that the state changes.
Event_apply_unguarded(e, st, job) ==
    [kind |-> "ok",
     job |-> [state |-> job.state,
              sectors |-> apply_changes(e, job.sectors),
              dirty |-> TRUE]]

\* Event::apply(self, state, job): job is [state, sectors, dirty]. The call
\* that would store the next state (update_state) is commented out in the source.
Event_apply(e, st, job) ==
    LET next == IF e.tag = "SetState" THEN e.st ELSE st
    IN  IF next = job.state
        THEN [kind |-> "err", job |-> job]      \* "state unchanged, may enter an infinite loop"
        ELSE [kind |-> "ok",
              job |-> [state |-> job.state,
                       sectors |-> apply_changes(e, job.sectors),
                       dirty |-> TRUE]]

Job == [state |-> state, sectors |-> sectors, dirty |-> dirty]

----------------------------------------------------------------------------
(* Outcomes of an executor action: Ok(event), Err(failure), a panic, or    *)
(* (inside a polling loop) another round after a completed wait.           *)
(* wait: the wait the action completed on the way ("interval", "cooldown").*)

\* An RPC as the action saw it: the method called, the argument of the
\* request that the model tracks (a count, or a flag as 0/1), the answer and
\* its payload.
Rpc(call, arg, ans, val) == [call |-> call, arg |-> arg, ans |-> ans, val |-> val]

NoRpc == Rpc("-", 0, "-", 0)

Flag(b) == IF b THEN 1 ELSE 0

Outcome(kind, e, level, wait) ==
    [kind |-> kind, evt |-> e, level |-> level, wait |-> wait, rpc |-> NoRpc]

\* The outcome o reached through the RPC r.
Via(r, o) == [o EXCEPT !.rpc = r]

OEvent(e) == Outcome("event", e, "None", "none")
OFail(level) == Outcome("fail", NoEvent, level, "none")
OPanic == Outcome("panic", NoEvent, "Panic", "none")      \* todo!()
\* OAgain with the loop going round without a wait.
OAgain_without_wait == Outcome("again", NoEvent, "None", "none")

OAgain == Outcome("again", NoEvent, "None", "interval")

\* call_rpc!(...)? : a transport error is returned as a Temporary failure.
RpcError == OFail("Temporary")

\* wait_or_interrupted with the stop signal noted and the action going on.
wait_noting_interrupt(o) == { o, [o EXCEPT !.level = "Interrupted"] }

\* sealing_ctrl.wait_or_interrupted(d)? : the wait elapses, giving o, or the
\* stop signal is raised during it and the action fails.
wait_or_interrupted(o) == { o, OFail("Interrupted") }

\* self.job.sector(index): Ok when the index is in range.
sector_ok(secs, index) == index < Len(secs)

\* sector(index).crit()? followed by base .context(..).crit()?
base_ok(secs, index) == sector_ok(secs, index) /\ secs[index + 1].base

SubmitResults == { "Accepted", "DuplicateSubmit", "MismatchedSubmission", "Rejected", "FilesMissed" }

OnChainStates == { "Landed", "NotFound", "Failed", "PermFailed", "ShouldAbort", "Pending", "Packed" }

\* allocate with the error of the RPC propagated by `?`.
allocate_error_fails(bs) ==
    LET call == "allocate_sectors_batch"
    IN  { Via(Rpc(call, bs, "Err", 0), RpcError),
          Via(Rpc(call, bs, "Ok", 0), OEvent(Ev("Idle", 0, 0))) } \cup
        { Via(Rpc(call, bs, "Ok", n), OEvent(Ev("Allocate", 0, n))) : n \in 1..bs }

\* BatchSealer::allocate: the RPC asks for batch_size sectors and answers
\* with an error or with a list of 0..batch_size sectors.
allocate(bs) ==
    LET call == "allocate_sectors_batch"
    IN  { Via(Rpc(call, bs, "Err", 0), OEvent(Ev("Idle", 0, 0))),        \* Err(e) => warn
          Via(Rpc(call, bs, "Ok", 0), OEvent(Ev("Idle", 0, 0))) } \cup   \* an empty list
        { Via(Rpc(call, bs, "Ok", n), OEvent(Ev("Allocate", 0, n))) : n \in 1..bs }

\* BatchSealer::acquire_deals(index)
acquire_deals(secs, c, index) ==
    IF ~c.enable_deals
    THEN { IF c.disable_cc THEN OEvent(Ev("Idle", 0, 0))
           ELSE OEvent(Ev("AcquireDeals", Len(secs), DealsNone)) }
    ELSE IF ~base_ok(secs, index) THEN { OFail("Critical") }
    ELSE { Via(Rpc("acquire_deals", 0, "Err", 0), RpcError) } \cup
         { Via(Rpc("acquire_deals", 0, "Ok", d),
               IF c.disable_cc \/ d = DealsSome
               THEN OEvent(Ev("AcquireDeals", index, d))
               ELSE OEvent(Ev("Idle", 0, 0))) : d \in {DealsNone, DealsEmpty, DealsSome} }

\* assign_ticket without the reuse of a ticket the record holds.
assign_ticket_always_asks(secs) ==
    IF ~base_ok(secs, 0) THEN { OFail("Critical") }
    ELSE { Via(Rpc("assign_ticket", 0, "Err", 0), RpcError) } \cup
         { Via(Rpc("assign_ticket", 0, "Ok", t), OEvent(Ev("AssignTicket", 0, t))) :
           t \in 1..MaxTicket }

\* BatchSealer::assign_ticket
assign_ticket(secs) ==
    IF ~base_ok(secs, 0) THEN { OFail("Critical") }
    ELSE IF secs[1].ticket # 0 THEN { OEvent(Ev("AssignTicket", 0, secs[1].ticket)) }
    ELSE { Via(Rpc("assign_ticket", 0, "Err", 0), RpcError) } \cup
         { Via(Rpc("assign_ticket", 0, "Ok", t), OEvent(Ev("AssignTicket", 0, t))) :
           t \in 1..MaxTicket }

\* submit_result with a second submission taken for a mismatched one.
submit_result_duplicate_fails(r, e) ==
    CASE r = "Accepted" -> OEvent(e)
      [] r \in {"DuplicateSubmit", "MismatchedSubmission"} -> OFail("Permanent")
      [] r = "Rejected" -> OFail("Abort")
      [] r = "FilesMissed" -> OFail("Permanent")

\* submit_result with a submission that was already made turned down.
submit_result_rejects_duplicate(r, e) ==
    CASE r = "Accepted" -> OEvent(e)
      [] r = "MismatchedSubmission" -> OFail("Permanent")
      [] r \in {"DuplicateSubmit", "Rejected"} -> OFail("Abort")
      [] r = "FilesMissed" -> OFail("Permanent")

\* match res.res of submit_pre_commit and submit_proof; e is the success event.
submit_result(r, e) ==
    CASE r \in {"Accepted", "DuplicateSubmit"} -> OEvent(e)
      [] r = "MismatchedSubmission" -> OFail("Permanent")
      [] r = "Rejected" -> OFail("Abort")
      [] r = "FilesMissed" -> OFail("Permanent")

\* submit_pre_commit with every submission sent as a first one.
submit_pre_commit_as_first(secs, index) ==
    IF ~sector_ok(secs, index) THEN { OFail("Critical") }
    ELSE IF ~(secs[index + 1].base /\ secs[index + 1].pc2out /\ secs[index + 1].ticket # 0)
    THEN { OFail("Critical") }
    ELSE { Via(Rpc("submit_pre_commit", 0, "Err", 0), RpcError) } \cup
         { Via(Rpc("submit_pre_commit", 0, r, 0),
               submit_result(r, Ev("SubmitPC", index, 0))) : r \in SubmitResults }

\* BatchSealer::submit_pre_commit(index)
submit_pre_commit(secs, index) ==
    IF ~sector_ok(secs, index) THEN { OFail("Critical") }
    ELSE IF ~(secs[index + 1].base /\ secs[index + 1].pc2out /\ secs[index + 1].ticket # 0)
    THEN { OFail("Critical") }                               \* "PC2 not completed"
    ELSE LET re_submit == Flag(secs[index + 1].pc2_re_submit)
         IN  { Via(Rpc("submit_pre_commit", re_submit, "Err", 0), RpcError) } \cup
             { Via(Rpc("submit_pre_commit", re_submit, r, 0),
                   submit_result(r, Ev("SubmitPC", index, 0))) : r \in SubmitResults }

\* poll_round with a Failed message given up on instead of resubmitted.
poll_round_failed_gives_up(st, landed, resubmit) ==
    CASE st = "Landed" -> { OEvent(landed) }
      [] st \in {"NotFound", "Failed", "PermFailed"} -> { OFail("Permanent") }
      [] st = "ShouldAbort" -> { OFail("Abort") }
      [] st \in {"Pending", "Packed"} -> wait_or_interrupted(OAgain)

\* One round of the polling loop of check_pre_commit_state and
\* check_proof_state: st is the polled on-chain state, landed and resubmit the
\* events of the action; the loop goes round again only while more is true.
poll_round(st, landed, resubmit) ==
    CASE st = "Landed" -> { OEvent(landed) }
      [] st = "NotFound" -> { OFail("Permanent") }
      [] st = "Failed" ->
            wait_or_interrupted(Outcome("event", resubmit, "None", "cooldown"))
      [] st = "PermFailed" -> { OFail("Permanent") }
      [] st = "ShouldAbort" -> { OFail("Abort") }
      [] st \in {"Pending", "Packed"} -> wait_or_interrupted(OAgain)

\* The loop of BatchSealer::check_pre_commit_state(index), one round.
check_pre_commit_state_round(index) ==
    { Via(Rpc("poll_pre_commit_state", 0, "Err", 0), RpcError) } \cup
    UNION { { Via(Rpc("poll_pre_commit_state", 0, st, 0), o) :
              o \in poll_round(st, Ev("CheckPC", index, 0), Ev("ReSubmitPC", index, 0)) } :
            st \in OnChainStates }

\* BatchSealer::persist_sector_files(index). The body in the source is that
\* of a confirmation (persist_instance required, submit_persisted_ex, a
\* negative answer is Permanent) and returns Ok(()); the event of this action
\* is Event::Persist { instance, index }.
persist_sector_files(secs, index) ==
    IF ~base_ok(secs, index) THEN { OFail("Critical") }
    ELSE IF secs[index + 1].persist_instance = 0 THEN { OFail("Critical") }
    ELSE { Via(Rpc("submit_persisted_ex", 0, "Err", 0), RpcError),
           Via(Rpc("submit_persisted_ex", 0, "false", 0), OFail("Permanent")),
           Via(Rpc("submit_persisted_ex", 0, "true", 0),
               OEvent(Ev("Persist", index, secs[index + 1].persist_instance))) }

\* submit_persisted sending whatever instance the sector has, none included.
submit_persisted_unchecked(secs, index) ==
    IF ~base_ok(secs, index) THEN { OFail("Critical") }
    ELSE { Via(Rpc("submit_persisted_ex", 0, "Err", 0), RpcError),
           Via(Rpc("submit_persisted_ex", 0, "false", 0), OFail("Permanent")),
           Via(Rpc("submit_persisted_ex", 0, "true", 0),
               OEvent(Ev("SubmitPersistance", index, 0))) }

\* BatchSealer::submit_persisted(index)
submit_persisted(secs, index) ==
    IF ~base_ok(secs, index) THEN { OFail("Critical") }
    ELSE IF secs[index + 1].persist_instance = 0 THEN { OFail("Critical") }
    ELSE { Via(Rpc("submit_persisted_ex", 0, "Err", 0), RpcError),
           Via(Rpc("submit_persisted_ex", 0, "false", 0), OFail("Permanent")),
           Via(Rpc("submit_persisted_ex", 0, "true", 0),
               OEvent(Ev("SubmitPersistance", index, 0))) }

\* wait_seed_round with only should_wait looked at in a response without seed.
wait_seed_round_ignores_delay(index) ==
    { Via(Rpc("wait_seed", 0, "Err", 0), RpcError),
      Via(Rpc("wait_seed", 0, "Seed", 1), OEvent(Ev("AssignSeed", index, 1))) } \cup
    UNION { { Via(Rpc("wait_seed", 0, IF should_wait THEN "Wait" ELSE "NoWait", delay), o) :
              o \in IF ~should_wait
                    THEN { OFail("Temporary") }
                    ELSE wait_or_interrupted(OAgain) } :
            should_wait \in BOOLEAN, delay \in 0..1 }

\* The loop of BatchSealer::wait_seed(index), one round: the answer carries a
\* seed (ans "Seed", val the seed), or no seed, should_wait (ans "Wait" or
\* "NoWait") and delay (val).
wait_seed_round(index) ==
    { Via(Rpc("wait_seed", 0, "Err", 0), RpcError),
      Via(Rpc("wait_seed", 0, "Seed", 1), OEvent(Ev("AssignSeed", index, 1))) } \cup
    UNION { { Via(Rpc("wait_seed", 0, IF should_wait THEN "Wait" ELSE "NoWait", delay), o) :
              o \in IF ~should_wait \/ delay = 0
                    THEN { OFail("Temporary") }              \* "invalid empty wait_seed response"
                    ELSE wait_or_interrupted(OAgain) } :
            should_wait \in BOOLEAN, delay \in 0..1 }

\* BatchSealer::submit_proof(index)
submit_proof(secs, index) ==
    IF ~base_ok(secs, index) THEN { OFail("Critical") }
    ELSE IF ~secs[index + 1].c2out THEN { OFail("Critical") }     \* "c2out required"
    ELSE LET re_submit == Flag(secs[index + 1].c2_re_submit)
         IN  { Via(Rpc("submit_proof", re_submit, "Err", 0), RpcError) } \cup
             { Via(Rpc("submit_proof", re_submit, r, 0),
                   submit_result(r, Ev("SubmitProof", index, 0))) : r \in SubmitResults }

\* The loop of BatchSealer::check_proof_state(index), one round.
check_proof_state_round(index) ==
    { Via(Rpc("poll_proof_state", 0, "Err", 0), RpcError) } \cup
    UNION { { Via(Rpc("poll_proof_state", 0, st, 0), o) :
              o \in poll_round(st, Ev("Finish", index, 0), Ev("ReSubmitProof", index, 0)) } :
            st \in OnChainStates }

----------------------------------------------------------------------------
(* BatchPlanner::exec *)

Act(name, index) == [name |-> name, index |-> index]

NoAction == Act("-", 0)

\* exec_terminal with every Finished state ending the batch.
exec_terminal_any_finished(st, bs) ==
    IF st.tag = "Finished" THEN Act("none", 0) ELSE Act("abort", 0)

\* exec_terminal with Aborted ending the batch quietly, like Finished.
exec_terminal_quiet_abort(st, bs) ==
    IF st.tag = "Finished" /\ st.index < bs - 1
    THEN Act("check_proof_state", st.index + 1)
    ELSE Act("none", 0)

\* The arms of the match for Finished and Aborted.
exec_terminal(st, bs) ==
    IF st.tag = "Finished"
    THEN IF st.index < bs - 1 THEN Act("check_proof_state", st.index + 1)
         ELSE Act("none", 0)
    ELSE Act("abort", 0)

\* The match of BatchPlanner::exec: the BatchSealer action a state dispatches
\* to ("none": return Ok(None); "abort": return Err(TaskAborted)).
exec_dispatch(st, bs) ==
    LET s == st.tag
        index == st.index
        more == index < bs - 1
    IN  CASE s = "Empty" -> Act("allocate", 0)
          [] s = "Allocated" -> Act("acquire_deals", 0)
          [] s = "DealsAcquired" ->
                IF more THEN Act("acquire_deals", index + 1) ELSE Act("add_pieces", 0)
          [] s = "PieceAdded" -> Act("build_tree_d", 0)
          [] s = "TreeDBuilt" -> Act("assign_ticket", 0)
          [] s = "TicketAssigned" -> Act("pc1", 0)
          [] s = "PC1Done" -> Act("pc2", 0)
          [] s = "PC2Done" -> Act("submit_pre_commit", 0)
          [] s = "PCSubmitted" ->
                IF more THEN Act("submit_pre_commit", index + 1)
                ELSE Act("check_pre_commit_state", 0)
          [] s = "PCLanded" ->
                IF more THEN Act("check_pre_commit_state", index + 1)
                ELSE Act("persist_sector_files", 0)
          [] s = "Persisted" ->
                IF more THEN Act("persist_sector_files", index)
                ELSE Act("submit_persisted", 0)
          [] s = "PersistanceSubmitted" ->
                IF more THEN Act("submit_persisted", index + 1) ELSE Act("wait_seed", 0)
          [] s = "SeedAssigned" ->
                IF more THEN Act("wait_seed", index + 1) ELSE Act("commit1", 0)
          [] s = "C1Done" -> Act("commit2", 0)
          [] s = "C2Done" ->
                IF more THEN Act("commit2", index) ELSE Act("submit_proof", 0)
          [] s = "ProofSubmitted" ->
                IF more THEN Act("submit_proof", index + 1)
                ELSE Act("check_proof_state", 0)
          [] s \in {"Finished", "Aborted"} -> exec_terminal(st, bs)

\* Actions whose body is todo!().
Unimplemented == { "add_pieces", "build_tree_d", "pc1", "pc2", "commit1", "commit2" }

\* Actions that poll in a loop.
Polling == { "check_pre_commit_state", "wait_seed", "check_proof_state" }

\* The part of an action before its first RPC or loop: the outcomes of a
\* one-shot action, the checks made before the loop of a polling action
\* ("again": the checks passed and the loop is entered).
begin_action(a, bs, secs, c) ==
    CASE a.name = "allocate" -> allocate(bs)
      [] a.name = "acquire_deals" -> acquire_deals(secs, c, a.index)
      [] a.name = "assign_ticket" -> assign_ticket(secs)
      [] a.name = "submit_pre_commit" -> submit_pre_commit(secs, a.index)
      [] a.name = "persist_sector_files" -> persist_sector_files(secs, a.index)
      [] a.name = "submit_persisted" -> submit_persisted(secs, a.index)
      [] a.name = "submit_proof" -> submit_proof(secs, a.index)
      [] a.name = "abort" -> { OFail("Abort") }
      [] a.name \in Unimplemented -> { OPanic }
      [] a.name \in {"check_pre_commit_state", "wait_seed"} ->
            IF base_ok(secs, a.index)
            THEN { Outcome("again", NoEvent, "None", "none") }
            ELSE { OFail("Critical") }
      [] a.name = "check_proof_state" ->
            IF ~base_ok(secs, a.index) THEN { OFail("Critical") }
            ELSE IF c.ignore_proof_check THEN { OEvent(Ev("Finish", a.index, 0)) }
            ELSE { Outcome("again", NoEvent, "None", "none") }

\* One round of the loop of a polling action.
poll_action(a) ==
    CASE a.name = "check_pre_commit_state" -> check_pre_commit_state_round(a.index)
      [] a.name = "wait_seed" -> wait_seed_round(a.index)
      [] a.name = "check_proof_state" -> check_proof_state_round(a.index)

----------------------------------------------------------------------------
(* The batch record a Job is created with *)

\* Sector j (0-based) of a record in state st has been through phase p.
Through(st, p, j) ==
    \/ Ord(st.tag) > Ord(p)
    \/ st.tag = p /\ (p \notin Indexed \/ j <= st.index)

\* The sectors of a record in state st, each holding what the phases before
\* st leave on it: base from Allocated, ticket from TicketAssigned, pc2out
\* from PC2Done, persist_instance from Persisted, seed from SeedAssigned,
\* c1out from C1Done, c2out from C2Done.
SectorsAt(st, bs) ==
    [k \in 1..bs |->
        [EmptySector EXCEPT
            !.base = Through(st, "Allocated", k - 1),
            !.ticket = IF Through(st, "TicketAssigned", k - 1) THEN 1 ELSE 0,
            !.pc2out = Through(st, "PC2Done", k - 1),
            !.persist_instance = IF Through(st, "Persisted", k - 1) THEN 1 ELSE 0,
            !.seed = IF Through(st, "SeedAssigned", k - 1) THEN 1 ELSE 0,
            !.c1out = Through(st, "C1Done", k - 1),
            !.c2out = Through(st, "C2Done", k - 1)]]

\* No crash has cut a cycle short since the last commit.
NoCrash == [evt |-> NoEvent, rpc |-> NoRpc]

Configs == [enable_deals : BOOLEAN, disable_cc : BOOLEAN, ignore_proof_check : BOOLEAN]

\* Job: the record is loaded from the store (Saved<Sectors, ..>), in any
\* state of the pipeline with batch_size sectors; a fresh batch is Empty.
InitJob ==
    /\ batch_size \in 1..MaxBatch
    /\ state \in States(batch_size - 1)
    /\ sectors = SectorsAt(state, batch_size)
    /\ build \in {"debug", "release"}
    /\ dirty = FALSE
    /\ action = NoAction
    /\ evt = NoEvent
    /\ res = NoRes
    /\ failure = "None"
    /\ polls = 0
    /\ waits = 0
    /\ cooldowns = 0
    /\ rpc = NoRpc
    /\ saved = [state |-> state, sectors |-> sectors]
    /\ crash = NoCrash

Init ==
    /\ InitJob
    /\ cfg \in Configs
    /\ pc = "exec"

----------------------------------------------------------------------------
(* The driver cycle *)

\* Where the cycle goes with the outcome of an executor action.
PcAfter(o) ==
    CASE o.kind = "event" -> "plan"
      [] o.kind = "again" -> "poll"
      [] OTHER -> "failed"

\* exec up to the first poll of a polling action. The cycle commits the
\* record before it calls exec again.
Exec ==
    /\ pc = "exec"
    /\ ~dirty
    /\ LET a == exec_dispatch(state, batch_size)
       IN  /\ action' = a
           /\ \E o \in IF a.name = "none"
                       THEN { Outcome("none", NoEvent, "None", "none") }
                       ELSE begin_action(a, batch_size, sectors, cfg) :
                 /\ pc' = IF o.kind = "none" THEN "done" ELSE PcAfter(o)
                 /\ evt' = o.evt
                 /\ failure' = o.level
                 /\ rpc' = o.rpc
    /\ res' = NoRes
    /\ polls' = 0
    /\ waits' = 0
    /\ cooldowns' = 0
    /\ UNCHANGED <<state, batch_size, sectors, cfg, build, dirty, saved, crash>>

\* One round of the loop of a polling action: the poll RPC, and the wait or
\* the return that its answer leads to.
Poll ==
    /\ pc = "poll"
    /\ \E o \in poll_action(action) :
          /\ o.kind = "again" => polls < MaxPolls
          /\ pc' = PcAfter(o)
          /\ evt' = o.evt
          /\ failure' = o.level
          /\ rpc' = o.rpc
          /\ waits' = IF o.wait = "interval" THEN waits + 1 ELSE waits
          /\ cooldowns' = IF o.wait = "cooldown" THEN cooldowns + 1 ELSE cooldowns
    /\ polls' = polls + 1
    /\ UNCHANGED <<state, batch_size, sectors, cfg, build, dirty, action, res,
                   saved, crash>>

\* The driver hands the event to plan; a plan error is Critical.
Plan ==
    /\ pc = "plan"
    /\ res' = plan(BatchPlanner, evt, state)
    /\ pc' = IF res'.kind = "ok" THEN "apply" ELSE "failed"
    /\ failure' = CASE res'.kind = "ok" -> "None"
                    [] res'.kind = "panic" -> "Panic"
                    [] OTHER -> "Critical"
    /\ UNCHANGED <<state, batch_size, sectors, cfg, build, dirty, action, evt,
                   polls, waits, cooldowns, rpc, saved, crash>>

\* The mutation step on job with event e and planned state st.
Mutate(e, st) ==
    LET r == Event_apply(e, st, Job)
    IN  /\ state' = r.job.state
        /\ sectors' = r.job.sectors
        /\ dirty' = r.job.dirty
        /\ pc' = IF r.kind = "ok" THEN "exec" ELSE "failed"
        /\ failure' = IF r.kind = "ok" THEN "None" ELSE "Critical"
        /\ UNCHANGED <<batch_size, cfg, build, action, evt, res, polls, waits, cooldowns,
                       rpc, saved, crash>>

\* The driver applies the event with the planned state.
Apply ==
    /\ pc = "apply"
    /\ Mutate(evt, res.state)

\* The driver commits the mutated record to the store and clears the flag.
Commit ==
    /\ pc = "exec"
    /\ dirty
    /\ saved' = [state |-> state, sectors |-> sectors]
    /\ dirty' = FALSE
    /\ crash' = NoCrash
    /\ UNCHANGED <<state, batch_size, sectors, cfg, build, pc, action, evt, res, failure,
                   polls, waits, cooldowns, rpc>>

Next == Exec \/ Poll \/ Plan \/ Apply \/ Commit

Spec == Init /\ [][Next]_vars

\* The driver thread runs the cycle as long as the cycle has a step to take.
FairSpec == Spec /\ WF_vars(Next)

\* The worker crashes after exec returned an event and before the record the
\* event mutates is committed; it restarts with the record of the store and
\* runs the cycle from exec.
Crash ==
    /\ crash = NoCrash
    /\ pc \in {"plan", "apply"} \/ (pc = "exec" /\ dirty)
    /\ crash' = [evt |-> evt, rpc |-> rpc]
    /\ state' = saved.state
    /\ sectors' = saved.sectors
    /\ dirty' = FALSE
    /\ pc' = "exec"
    /\ action' = NoAction
    /\ evt' = NoEvent
    /\ res' = NoRes
    /\ failure' = "None"
    /\ polls' = 0
    /\ waits' = 0
    /\ cooldowns' = 0
    /\ rpc' = NoRpc
    /\ UNCHANGED <<batch_size, cfg, build, saved>>

NextCrash == Next \/ Crash

SpecCrash == Init /\ [][NextCrash]_vars

----------------------------------------------------------------------------
(* exec on any record of the store *)

\* The fields of a sector that a phase populates.
Fields == { "base", "ticket", "pc2out", "persist_instance", "seed", "c1out", "c2out" }

\* The records the store can hand to a Job in state st: the sectors as the
\* phases before st leave them, or those sectors cut short, or with one
\* field absent on one sector, or with one resubmission flag set.
LoadedSectors(st, bs) ==
    LET full == SectorsAt(st, bs)
    IN  { full } \cup
        { SubSeq(full, 1, n) : n \in 0..(bs - 1) } \cup
        { [full EXCEPT ![k] = [@ EXCEPT ![f] = EmptySector[f]]] : k \in 1..bs, f \in Fields } \cup
        { [full EXCEPT ![k] = [@ EXCEPT ![f] = TRUE]] :
          k \in 1..bs, f \in {"pc2_re_submit", "c2_re_submit"} }

InitLoad ==
    /\ batch_size \in 1..MaxBatch
    /\ state \in States(batch_size - 1)
    /\ sectors \in LoadedSectors(state, batch_size)
    /\ cfg \in Configs
    /\ build \in {"debug", "release"}
    /\ dirty = FALSE
    /\ pc = "exec"
    /\ action = NoAction
    /\ evt = NoEvent
    /\ res = NoRes
    /\ failure = "None"
    /\ polls = 0
    /\ waits = 0
    /\ cooldowns = 0
    /\ rpc = NoRpc
    /\ saved = [state |-> state, sectors |-> sectors]
    /\ crash = NoCrash

SpecLoad == InitLoad /\ [][Next]_vars

----------------------------------------------------------------------------
(* plan and Event::apply on drawn inputs *)

InitPlan ==
    /\ InitJob
    /\ cfg = [enable_deals |-> TRUE, disable_cc |-> FALSE, ignore_proof_check |-> FALSE]
    /\ pc = "draw"

\* Any event of the bounded set is handed to plan in the record's state.
Draw ==
    /\ pc = "draw"
    /\ \E e \in Events(MaxBatch) : evt' = e
    /\ pc' = "plan"
    /\ UNCHANGED <<state, batch_size, sectors, cfg, build, dirty, action, res, failure,
                   polls, waits, cooldowns, rpc, saved, crash>>

\* Event::SetState carries its state itself and is applied without a plan.
ApplySetState ==
    /\ pc = "plan"
    /\ evt.tag = "SetState"
    /\ Mutate(evt, state)

NextPlan == Draw \/ Plan \/ Apply \/ ApplySetState

SpecPlan == InitPlan /\ [][NextPlan]_vars

----------------------------------------------------------------------------
(* Properties *)

\* The phase after tag in the pipeline.
Succ(tag) == Pipeline[Ord(tag) + 1]

\* The event that reports an indexed phase.
PhaseEvent(tag) ==
    CASE tag = "DealsAcquired" -> "AcquireDeals"
      [] tag = "PieceAdded" -> "AddPiece"
      [] tag = "TreeDBuilt" -> "BuildTreeD"
      [] tag = "PCSubmitted" -> "SubmitPC"
      [] tag = "PCLanded" -> "CheckPC"
      [] tag = "Persisted" -> "Persist"
      [] tag = "PersistanceSubmitted" -> "SubmitPersistance"
      [] tag = "SeedAssigned" -> "AssignSeed"
      [] tag = "C2Done" -> "C2"
      [] tag = "ProofSubmitted" -> "SubmitProof"
      [] tag = "Finished" -> "Finish"

\* The executor action that produces a phase.
ActionOf(tag) ==
    CASE tag = "Allocated" -> "allocate"
      [] tag = "DealsAcquired" -> "acquire_deals"
      [] tag = "PieceAdded" -> "add_pieces"
      [] tag = "TreeDBuilt" -> "build_tree_d"
      [] tag = "TicketAssigned" -> "assign_ticket"
      [] tag = "PC1Done" -> "pc1"
      [] tag = "PC2Done" -> "pc2"
      [] tag = "PCSubmitted" -> "submit_pre_commit"
      [] tag = "PCLanded" -> "check_pre_commit_state"
      [] tag = "Persisted" -> "persist_sector_files"
      [] tag = "PersistanceSubmitted" -> "submit_persisted"
      [] tag = "SeedAssigned" -> "wait_seed"
      [] tag = "C1Done" -> "commit1"
      [] tag = "C2Done" -> "commit2"
      [] tag = "ProofSubmitted" -> "submit_proof"
      [] tag = "Finished" -> "check_proof_state"

\* plan has returned for (evt, state): res holds its result.
Planned == res.kind # "-"

\* C1 --------------------------------------------------------------------
C1_Finished == pc = "done" /\ state = St("Finished", batch_size - 1)

\* The sector manager did not answer with success, or the stop signal came.
C1_EnvFailed ==
    \/ failure \in {"Temporary", "Interrupted", "Permanent", "Abort"}
    \/ evt.tag = "Idle"
    \/ evt.tag = "Allocate" /\ evt.val < batch_size

\* C1: forward progress. A fresh batch (Empty, nothing executed yet) driven
\* by the cycle exec -> plan -> apply reaches Finished{batch_size-1} with exec
\* returning no event, unless an RPC fails, an answer is not the success
\* answer, or the stop signal is raised.
C1_ForwardProgress ==
    (state.tag = "Empty" /\ pc = "exec" /\ evt = NoEvent) ~> (C1_Finished \/ C1_EnvFailed)

\* C2: the transition table realises the pipeline. Wherever plan is called in
\* a state of a phase that has a successor in the pipeline, some event is
\* accepted by plan there and mapped to a state of the successor phase.
C2_PipelineRealised ==
    (Planned /\ state.tag \in StateTags \ {"Finished", "Aborted"}) =>
        \E e \in Events(MaxBatch) :
            LET r == plan(BatchPlanner, e, state)
            IN  r.kind = "ok" /\ r.state.tag = Succ(state.tag)

\* C3: plan is a total function on the declared pairs and fails on the
\* others. Whenever plan has returned for (evt, state): a declared pair got a
\* next state, an undeclared pair got the "unexpected state and event" error,
\* and (before the mutation step) the record is as it was loaded.
C3_PlanTotalOnDeclared ==
    Planned =>
        /\ <<state.tag, evt.tag>> \in DeclaredPairs => res.kind = "ok"
        /\ <<state.tag, evt.tag>> \notin DeclaredPairs => res.kind = "err"
        /\ pc \in {"apply", "failed"} =>
              sectors = SectorsAt(state, batch_size) /\ ~dirty

\* C4 (as claimed): plan never returns a next state equal to its input state.
C4_PlanNeverReturnsInput ==
    (Planned /\ res.kind = "ok") => res.state # state

\* C4 (amended): the no-progress guard is in the mutation step. When the next
\* state to apply (the planned state, or the state of a SetState event) equals
\* the current state, the step ends in a Critical error and leaves the state
\* and all sector data as they were, the record not marked dirty.
C4_GuardRejectsUnchanged ==
    [][ (\/ pc = "apply" /\ res.state = state
         \/ pc = "plan" /\ evt.tag = "SetState" /\ evt.st = state)
        => /\ pc' = "failed"
           /\ failure' = "Critical"
           /\ state' = state
           /\ sectors' = sectors
           /\ dirty' = dirty ]_vars

\* The guard has rejected an event that plan accepted with the input state.
C4_Witness ==
    pc = "failed" /\ res.kind = "ok" /\ res.state = state /\ evt.tag = "AcquireDeals"

\* C5: indexed-phase acceptance. For an indexed phase P with event E, plan
\* accepts E{index} in every state of P and of the phase before P, and
\* returns P{index}.
C5_IndexedAcceptance ==
    \A p \in Indexed :
        (Planned /\ evt.tag = PhaseEvent(p) /\ state.tag \in {p, Pipeline[Ord(p) - 1]})
            => res = PlanOk(St(p, evt.index))

\* Indexed phases the batch advance boundary is claimed for.
C6_Phases ==
    { "DealsAcquired", "PieceAdded", "PCSubmitted", "PCLanded", "Persisted",
      "PersistanceSubmitted", "SeedAssigned", "C2Done", "ProofSubmitted", "Finished" }

\* C6: batch advance boundary. In Phase(i) exec dispatches to the phase's own
\* action on sector i+1 while i < batch_size-1, and to the next phase's action
\* (sector 0, or the batch) when i = batch_size-1; after Finished there is no
\* next action.
C6_BatchAdvance ==
    (action # NoAction /\ state.tag \in C6_Phases) =>
        action = IF state.index < batch_size - 1
                 THEN Act(ActionOf(state.tag), state.index + 1)
                 ELSE IF state.tag = "Finished" THEN Act("none", 0)
                 ELSE Act(ActionOf(Succ(state.tag)), 0)

\* C7: breadth-first ordering. An indexed event accepted by plan (a
\* resubmission aside) carries index 0 when it opens its phase and the
\* current index + 1 when it continues it; and while a phase has sectors left
\* (index < batch_size-1) the action exec issues is that phase's own.
C7_BreadthFirst ==
    /\ (pc = "apply" /\ res.state.tag \in Indexed
            /\ evt.tag \notin {"ReSubmitPC", "ReSubmitProof"})
        => res.state.index = IF res.state.tag = state.tag THEN state.index + 1 ELSE 0
    /\ (action # NoAction /\ state.tag \in Indexed /\ state.index < batch_size - 1)
        => action.name = ActionOf(state.tag)

\* C8: pre-commit resubmission rollback. plan on ReSubmitPC{i} in a
\* PCSubmitted state returns PCSubmitted{i-1} when i > 0 and PC2Done when
\* i = 0; the index never goes below 0.
C8_ReSubmitPCRollback ==
    (Planned /\ state.tag = "PCSubmitted" /\ evt.tag = "ReSubmitPC") =>
        /\ res = IF evt.index > 0 THEN PlanOk(St("PCSubmitted", evt.index - 1))
                 ELSE PlanOk(St("PC2Done", 0))
        /\ res.state.index >= 0

\* plan has rolled ReSubmitPC{0} back to PC2Done.
C8_Witness ==
    /\ pc = "apply" /\ state.tag = "PCSubmitted"
    /\ evt = Ev("ReSubmitPC", 0, 1) /\ res.state = St("PC2Done", 0)

\* C9: proof resubmission rollback. plan on ReSubmitProof{i} in a
\* ProofSubmitted state returns ProofSubmitted{i-1} when i > 0 and
\* C2Done{batch_size-1}, batch_size the job's, when i = 0.
C9_ReSubmitProofRollback ==
    (Planned /\ state.tag = "ProofSubmitted" /\ evt.tag = "ReSubmitProof") =>
        res = IF evt.index > 0 THEN PlanOk(St("ProofSubmitted", evt.index - 1))
              ELSE PlanOk(St("C2Done", batch_size - 1))

\* C10: retry from submission. The resubmit event a Failed poll of sector i
\* leads to is accepted by plan in the state exec was dispatched from, and
\* from the planned state exec dispatches to the submission of sector i.
C10_RetryFromSubmission ==
    (Planned /\ evt.tag \in {"ReSubmitPC", "ReSubmitProof"}) =>
        /\ res.kind = "ok"
        /\ exec_dispatch(res.state, batch_size) =
              Act(IF evt.tag = "ReSubmitPC" THEN "submit_pre_commit" ELSE "submit_proof",
                  evt.index)

\* exec has returned an event or a failure, and plan has not run on it yet.
Returned == res.kind = "-" /\ pc \in {"plan", "failed"}

\* The success event of the running submission.
C11_SubmitEvent ==
    IF action.name = "submit_pre_commit" THEN Ev("SubmitPC", action.index, 0)
    ELSE Ev("SubmitProof", action.index, 0)

\* C11: submission result interpretation. When submit_pre_commit(i) or
\* submit_proof(i) got a result from the sector manager: Accepted and
\* DuplicateSubmit both end in the one success event of the action for sector
\* i; MismatchedSubmission and FilesMissed end in a Permanent failure and
\* Rejected in an Abort failure, with no event; the five results are all.
C11_SubmissionResult ==
    (Returned /\ action.name \in {"submit_pre_commit", "submit_proof"} /\ rpc.ans # "Err"
            /\ rpc # NoRpc) =>
        /\ rpc.ans \in SubmitResults
        /\ rpc.ans \in {"Accepted", "DuplicateSubmit"} =>
              pc = "plan" /\ evt = C11_SubmitEvent /\ failure = "None"
        /\ rpc.ans \in {"MismatchedSubmission", "FilesMissed"} =>
              pc = "failed" /\ evt = NoEvent /\ failure = "Permanent"
        /\ rpc.ans = "Rejected" =>
              pc = "failed" /\ evt = NoEvent /\ failure = "Abort"

\* A proof submitted twice came back as DuplicateSubmit and gave SubmitProof.
C11_Witness ==
    /\ Returned /\ action = Act("submit_proof", 1) /\ rpc.ans = "DuplicateSubmit"
    /\ pc = "plan" /\ evt = Ev("SubmitProof", 1, 0)

\* A round of the loop of a check action has ended in the answer rpc.ans.
C12_Polled ==
    /\ action.name \in {"check_pre_commit_state", "check_proof_state"}
    /\ polls > 0 /\ res.kind = "-" /\ pc \in {"plan", "failed", "poll"}
    /\ rpc.ans # "Err"

C12_Landed ==
    IF action.name = "check_pre_commit_state" THEN Ev("CheckPC", action.index, 0)
    ELSE Ev("Finish", action.index, 0)

C12_ReSubmit ==
    IF action.name = "check_pre_commit_state" THEN Ev("ReSubmitPC", action.index, 0)
    ELSE Ev("ReSubmitProof", action.index, 0)

\* C12: polling outcome table of check_pre_commit_state(i) and of
\* check_proof_state(i) with the proof check enabled. Landed ends the loop
\* with the success event; NotFound and PermFailed give a Permanent failure,
\* ShouldAbort an Abort failure; Failed gives one cooldown wait and then the
\* resubmit event; Pending and Packed give one polling-interval wait and
\* then another poll, with no event. (A wait cut short by the stop signal is
\* the subject of C18.)
C12_PollingOutcomes ==
    C12_Polled =>
        /\ rpc.ans \in OnChainStates
        /\ rpc.ans = "Landed" =>
              pc = "plan" /\ evt = C12_Landed /\ failure = "None" /\ cooldowns = 0
        /\ rpc.ans \in {"NotFound", "PermFailed"} =>
              pc = "failed" /\ evt = NoEvent /\ failure = "Permanent"
        /\ rpc.ans = "ShouldAbort" =>
              pc = "failed" /\ evt = NoEvent /\ failure = "Abort"
        /\ (rpc.ans = "Failed" /\ failure # "Interrupted") =>
              pc = "plan" /\ evt = C12_ReSubmit /\ cooldowns = 1 /\ waits = polls - 1
        /\ (rpc.ans \in {"Pending", "Packed"} /\ failure # "Interrupted") =>
              pc = "poll" /\ evt = NoEvent /\ waits = polls /\ cooldowns = 0

\* After two waits of the interval the proof message Failed: one cooldown wait, then
\* ReSubmitProof for the polled sector.
C12_Witness ==
    /\ C12_Polled /\ action = Act("check_proof_state", 1) /\ rpc.ans = "Failed"
    /\ polls = 3 /\ waits = 2 /\ cooldowns = 1
    /\ pc = "plan" /\ evt = Ev("ReSubmitProof", 1, 0)

\* exec has ended: it returned Ok(None), an event or a failure, or an
\* unimplemented action panicked; plan has not run yet.
C13_ExecEnded == res.kind = "-" /\ pc \in {"done", "plan", "failed"}

C14_ExecAborts ==
    action # NoAction =>
        /\ action = Act("abort", 0)
        /\ pc = "failed" /\ failure = "Abort" /\ evt = NoEvent
        /\ rpc = NoRpc /\ polls = 0 /\ waits = 0 /\ cooldowns = 0

\* C14: Aborted is terminal. In state Aborted exec returns the Abort
\* failure at once, without an RPC or a wait; plan rejects every event there;
\* and no step of the cycle takes the batch out of Aborted.
C14_AbortedTerminal ==
    /\ [](state.tag = "Aborted" =>
            /\ C14_ExecAborts
            /\ \A e \in Events(MaxBatch) : plan(BatchPlanner, e, state).kind = "err")
    /\ [][state.tag = "Aborted" => state' = state]_vars

\* exec has run on an Aborted batch and returned the Abort failure.
C14_Witness ==
    state.tag = "Aborted" /\ action = Act("abort", 0) /\ pc = "failed" /\ failure = "Abort"

\* C15: Aborted is reachable from any point. In every state that is not
\* terminal, the transition a Permanent or Abort failure takes - Event::SetState
\* with state Aborted, handed to the mutation step - leaves the batch in state
\* Aborted once it has been applied.
C15_AbortedReachable ==
    (pc = "exec" /\ evt = SetState(St("Aborted", 0))
        /\ saved.state.tag \notin {"Finished", "Aborted"}) => state.tag = "Aborted"

\* C16: Idle is not an error. When an action has returned Idle the cycle
\* raises no error, the state and all sector data stay as they were, and once
\* plan has seen the event the cycle is back at exec, to retry the action.
C16_IdleNotAnError ==
    evt.tag = "Idle" =>
        /\ failure = "None" /\ pc \in {"plan", "exec"}
        /\ state = saved.state /\ sectors = saved.sectors
        /\ Planned => pc = "exec"

\* The sector manager answered the replayed exec as it answered the exec the
\* crash cut short: the same answer, or DuplicateSubmit to a submission that
\* was Accepted the first time.
C17_SameAnswers ==
    \/ rpc.ans = crash.rpc.ans /\ rpc.val = crash.rpc.val
    \/ crash.rpc.ans = "Accepted" /\ rpc.ans = "DuplicateSubmit"

\* C17: crash replay. After a crash between an event of exec and the commit
\* of the record, exec re-run on the record of the store, with the sector
\* manager answering as before (and no stop signal), makes the same request
\* and returns the same event; hence plan gives the same next state and the
\* mutation step the same sector data.
C17_CrashReplay ==
    (crash # NoCrash /\ Returned /\ failure # "Interrupted" /\ C17_SameAnswers) =>
        /\ state = saved.state /\ sectors = saved.sectors
        /\ rpc.call = crash.rpc.call /\ rpc.arg = crash.rpc.arg
        /\ pc = "plan" /\ evt = crash.evt
        /\ plan(BatchPlanner, evt, state) = plan(BatchPlanner, crash.evt, saved.state)

\* A pre-commit submission Accepted before the crash is answered
\* DuplicateSubmit on replay and gives SubmitPC for the same sector again.
C17_Witness ==
    /\ crash # NoCrash /\ Returned
    /\ crash.rpc.ans = "Accepted" /\ rpc.ans = "DuplicateSubmit"
    /\ pc = "plan" /\ evt = Ev("SubmitPC", 1, 0) /\ crash.evt = evt

\* C18: cancellation during a wait. When the stop signal is raised during a
\* polling-interval, cooldown or seed-delay wait, the action ends in a failure
\* with no event, the state and all sector data are as before the exec call,
\* and nothing more is done in the cycle (no further poll).
C18_CancelledWait ==
    /\ [](failure = "Interrupted" =>
            /\ action.name \in Polling
            /\ pc = "failed" /\ evt = NoEvent /\ res = NoRes
            /\ state = saved.state /\ sectors = saved.sectors /\ ~dirty)
    /\ [][failure # "Interrupted"]_vars

\* The stop signal came during the cooldown wait after a Failed pre-commit.
C18_Witness ==
    /\ failure = "Interrupted" /\ action = Act("check_pre_commit_state", 1)
    /\ rpc.ans = "Failed" /\ polls = 2 /\ waits = 1 /\ cooldowns = 0 /\ pc = "failed"

\* C19: pending-then-landed. A check action whose polls were answered
\* Pending or Packed k times and then Landed returns its one success event
\* after k+1 poll RPCs and k waits of the polling interval, with no cooldown
\* wait. (Only a Pending or Packed answer lets the loop go round, so the
\* Landed poll is poll number k+1.)
C19_PendingThenLanded ==
    (C12_Polled /\ rpc.ans = "Landed") =>
        /\ Returned /\ pc = "plan" /\ evt = C12_Landed
        /\ polls = waits + 1
        /\ cooldowns = 0

\* Three pending answers, then Landed: CheckPC after 4 polls and 3 waits.
C19_Witness ==
    /\ C12_Polled /\ rpc.ans = "Landed" /\ action = Act("check_pre_commit_state", 0)
    /\ polls = 4 /\ waits = 3 /\ cooldowns = 0 /\ evt = Ev("CheckPC", 0, 0)

\* C20: allocate. The action asks for batch_size sectors; an RPC error or an
\* empty list gives Idle and never a failure; a list of n > 0 sectors gives
\* Allocate(list); and plan accepts Allocate in state Empty only, giving
\* Allocated.
C20_Allocate ==
    /\ (Returned /\ action.name = "allocate") =>
          /\ rpc.call = "allocate_sectors_batch" /\ rpc.arg = batch_size
          /\ pc = "plan" /\ failure = "None"
          /\ (rpc.ans = "Err" \/ rpc.val = 0) => evt = Ev("Idle", 0, 0)
          /\ (rpc.ans = "Ok" /\ rpc.val > 0) => evt = Ev("Allocate", 0, rpc.val)
    /\ \A n \in 1..MaxBatch :
          plan(BatchPlanner, Ev("Allocate", 0, n), state) =
              IF state.tag = "Empty" THEN PlanOk(St("Allocated", 0)) ELSE PlanErr

\* The allocation RPC failed and the action returned Idle.
C20_Witness ==
    /\ Returned /\ action = Act("allocate", 0) /\ rpc.ans = "Err"
    /\ pc = "plan" /\ evt = Ev("Idle", 0, 0) /\ failure = "None"

\* C21: acquire_deals(i). With deal-sealing enabled the action returns Idle
\* exactly when the sector manager returned no deals and committed-capacity
\* sealing is disallowed (disable_cc), and AcquireDeals{i, deals} otherwise;
\* with deal-sealing disabled it returns Idle when committed-capacity sealing
\* is disallowed and AcquireDeals{i, None} otherwise.
C21_AcquireDeals ==
    (Returned /\ action.name = "acquire_deals" /\ pc = "plan") =>
        IF cfg.enable_deals
        THEN evt = IF rpc.val # DealsSome /\ cfg.disable_cc
                   THEN Ev("Idle", 0, 0)
                   ELSE Ev("AcquireDeals", action.index, rpc.val)
        ELSE evt = IF cfg.disable_cc
                   THEN Ev("Idle", 0, 0)
                   ELSE Ev("AcquireDeals", action.index, DealsNone)

\* C22: assign_ticket is idempotent. When sector 0 of the record holds a
\* ticket the action makes no RPC and returns AssignTicket with that ticket,
\* otherwise it returns the ticket the sector manager gave; once the event is
\* applied every sector holds its ticket (so a re-run returns the same event).
C22_TicketIdempotent ==
    /\ (Returned /\ action.name = "assign_ticket" /\ pc = "plan") =>
          IF sectors[1].ticket # 0
          THEN rpc = NoRpc /\ evt = Ev("AssignTicket", 0, sectors[1].ticket)
          ELSE rpc.call = "assign_ticket" /\ evt = Ev("AssignTicket", 0, rpc.val)
    /\ (evt.tag = "AssignTicket" /\ pc = "exec" /\ res.kind = "ok") =>
          \A k \in 1..Len(sectors) : sectors[k].ticket = evt.val

\* The action re-run on a committed record whose sectors all hold ticket 2
\* returned AssignTicket(2) without asking the sector manager.
C22_Witness ==
    /\ Returned /\ action.name = "assign_ticket" /\ pc = "plan" /\ rpc = NoRpc
    /\ batch_size = 3 /\ \A k \in 1..3 : saved.sectors[k].ticket = 2
    /\ evt = Ev("AssignTicket", 0, 2)

\* A round of the loop of wait_seed has ended in the response rpc.
C23_Polled ==
    /\ action.name = "wait_seed" /\ polls > 0 /\ res.kind = "-"
    /\ pc \in {"plan", "failed", "poll"} /\ rpc.ans # "Err"

\* C23: wait_seed(i). A response with a seed gives AssignSeed{i, seed}; a
\* response without seed and with should_wait false or delay 0 gives a
\* Temporary failure; a response without seed, should_wait true and delay > 0
\* gives one wait (unless the stop signal cuts it short) and then another
\* poll, with no event.
C23_WaitSeed ==
    C23_Polled =>
        /\ rpc.ans \in {"Seed", "Wait", "NoWait"}
        /\ rpc.ans = "Seed" =>
              pc = "plan" /\ evt = Ev("AssignSeed", action.index, rpc.val) /\ failure = "None"
        /\ (rpc.ans = "NoWait" \/ (rpc.ans = "Wait" /\ rpc.val = 0)) =>
              pc = "failed" /\ evt = NoEvent /\ failure = "Temporary" /\ waits = polls - 1
        /\ (rpc.ans = "Wait" /\ rpc.val > 0 /\ failure # "Interrupted") =>
              pc = "poll" /\ evt = NoEvent /\ failure = "None" /\ waits = polls
        /\ cooldowns = 0

\* After one wait the response had no seed, should_wait = true and delay = 0:
\* a Temporary failure.
C23_Witness ==
    /\ C23_Polled /\ action = Act("wait_seed", 1) /\ rpc.ans = "Wait" /\ rpc.val = 0
    /\ polls = 2 /\ waits = 1 /\ pc = "failed" /\ failure = "Temporary"

\* exec has run the action it dispatched to, on the record as loaded.
C24_Ran ==
    /\ action # NoAction /\ res.kind = "-" /\ pc \in {"plan", "failed", "poll"}
    /\ action.name \notin Unimplemented \cup {"allocate", "abort"}

\* What the running action needs of the record is missing: its sector, that
\* sector's base, or the field an earlier phase leaves for it.
C24_Missing ==
    \/ ~base_ok(sectors, action.index)
    \/ /\ action.name = "submit_pre_commit"
       /\ ~sectors[action.index + 1].pc2out \/ sectors[action.index + 1].ticket = 0
    \/ action.name = "submit_persisted" /\ sectors[action.index + 1].persist_instance = 0
    \/ action.name = "submit_proof" /\ ~sectors[action.index + 1].c2out

\* The action failed Critical before any RPC of its own.
C24_CriticalNoRpc ==
    pc = "failed" /\ failure = "Critical" /\ evt = NoEvent /\ rpc = NoRpc /\ polls = 0

\* C24 (as claimed): missing prior-phase data is Critical. Every executor
\* action whose sector index is out of range or whose sector lacks base,
\* submit_pre_commit without pc2out or ticket, submit_persisted without
\* persist_instance and submit_proof without c2out fail Critical without
\* issuing the action's RPC.
C24_MissingDataCritical ==
    (C24_Ran /\ C24_Missing) => C24_CriticalNoRpc

\* C24 (amended): the same, for every action that looks its sector up; that
\* is every action but acquire_deals with deal-sealing disabled, which
\* returns before the lookup.
C24_MissingDataCriticalOnLookup ==
    (C24_Ran /\ C24_Missing /\ ~(action.name = "acquire_deals" /\ ~cfg.enable_deals))
        => C24_CriticalNoRpc

\* submit_persisted on an allocated sector without persist_instance failed
\* Critical with no RPC made.
C24_Witness ==
    /\ C24_Ran /\ action = Act("submit_persisted", 1) /\ Len(sectors) = 2
    /\ sectors[2].base /\ sectors[2].persist_instance = 0
    /\ C24_CriticalNoRpc

\* Field f of sector sec is populated.
Populated(sec, f) == sec[f] # EmptySector[f]

\* The applied event is the one event of the pipeline's order in its state:
\* it continues the phase with the next sector or opens the next phase with
\* sector 0, and a list it carries has batch_size entries.
C25_InOrder ==
    /\ \/ res.state.tag = state.tag /\ state.tag \in Indexed
          /\ res.state.index = state.index + 1
       \/ state.tag # "Finished" /\ res.state.tag = Succ(state.tag) /\ res.state.index = 0
          /\ (state.tag \in Indexed => state.index = batch_size - 1)
    /\ evt.tag \in {"Allocate", "C1"} => evt.val = batch_size

\* The outcomes of the action exec dispatches to in state st.
C25_Outcomes(st) ==
    LET a == exec_dispatch(st, batch_size)
    IN  IF a.name = "none" THEN {} ELSE begin_action(a, batch_size, sectors, cfg)

\* C25: phase data is populated in pipeline order. Once an event of the
\* pipeline's order has been planned and applied, the sectors hold every
\* field the planned state stands for (base from Allocated on, ticket from
\* TicketAssigned on, pc2out from PC2Done on, persist_instance from Persisted
\* on, seed from SeedAssigned on, c1out from C1Done on, c2out from C2Done on),
\* and the action of the planned state does not fail Critical.
C25_DataInPipelineOrder ==
    (pc = "exec" /\ dirty /\ res.kind = "ok" /\ C25_InOrder) =>
        /\ \A k \in 1..batch_size, f \in Fields :
              Populated(SectorsAt(res.state, batch_size)[k], f) => Populated(sectors[k], f)
        /\ \A o \in C25_Outcomes(res.state) : o.level # "Critical"

\* C26: the state is advanced by the mutation step. After an event has been
\* applied with a planned state different from the current one, the state of
\* the record is the planned state - the one the next exec dispatches on -
\* and the record is dirty until it is committed.
C26_StateAdvanced ==
    (pc = "exec" /\ res.kind = "ok") =>
        /\ state = res.state
        /\ dirty \/ saved = [state |-> state, sectors |-> sectors]

\* C27: index bound. In every state of the cycle the index of an indexed
\* state lies in 0..batch_size-1, and every index exec passes to an action or
\* an action places in its event is the index of a sector of the batch.
C27_IndexBound ==
    /\ state.tag \in Indexed => state.index \in 0..(batch_size - 1)
    /\ action # NoAction => action.index \in 0..(Len(sectors) - 1)
    /\ evt.tag \in IndexedEvents => evt.index \in 0..(Len(sectors) - 1)

\* The step is the mutation step and it applied the event evt.
C28_Applies == pc = "apply" /\ pc' = "exec"

\* The value of a resubmission flag of sector k after a step: set by the
\* applied resubmit event of the sector, cleared by its applied submit event,
\* and left alone by everything else.
C28_FlagAfter(flag, k, submit, resubmit) ==
    IF C28_Applies /\ evt.tag = resubmit /\ evt.index = k - 1 THEN TRUE
    ELSE IF C28_Applies /\ evt.tag = submit /\ evt.index = k - 1 THEN FALSE
    ELSE flag

\* A submission RPC carries the flag of the sector it submits.
C28_CarriesFlag ==
    (res.kind = "-" /\ rpc.call \in {"submit_pre_commit", "submit_proof"}) =>
        rpc.arg = Flag(IF rpc.call = "submit_pre_commit"
                       THEN sectors[action.index + 1].pc2_re_submit
                       ELSE sectors[action.index + 1].c2_re_submit)

\* C28: resubmission flag lifecycle. The pre-commit (proof) flag of sector i
\* becomes true when ReSubmitPC{i} (ReSubmitProof{i}) is applied, false when
\* SubmitPC{i} (SubmitProof{i}) is applied, and no other step and no event of
\* another sector changes it; every submission carries the flag of its
\* sector as its resubmit argument (false on a record no resubmit event has
\* touched, true after the sector's resubmit event).
C28_ReSubmitFlag ==
    /\ []C28_CarriesFlag
    /\ [][ /\ Len(sectors') = Len(sectors)
           /\ \A k \in 1..Len(sectors) :
                /\ sectors'[k].pc2_re_submit =
                      C28_FlagAfter(sectors[k].pc2_re_submit, k, "SubmitPC", "ReSubmitPC")
                /\ sectors'[k].c2_re_submit =
                      C28_FlagAfter(sectors[k].c2_re_submit, k, "SubmitProof", "ReSubmitProof") ]_vars

\* Sector 1's pre-commit was submitted with resubmit = true, accepted, and
\* the applied SubmitPC{1} cleared the flag of sector 1 only.
C28_Witness ==
    /\ pc = "exec" /\ dirty /\ evt = Ev("SubmitPC", 1, 0)
    /\ rpc.call = "submit_pre_commit" /\ rpc.arg = 1
    /\ saved.sectors[2].pc2_re_submit /\ ~sectors[2].pc2_re_submit

====
